---- MODULE Spec2Model ----
(***************************************************************************)
(* CubeFileOpenInterceptor (cube_file_open_interceptor.py): the cache      *)
(* hit-rate aggregator of cube_torch.  All state lives in class            *)
(* attributes; add_count and print_hit_rate are static methods that read   *)
(* and write those attributes without any lock.                            *)
(*                                                                         *)
(* Every load and every store of a class attribute is one step, so that    *)
(* the interleavings of threads calling add_count with the timer thread    *)
(* calling print_hit_rate are the interleavings Python allows.  Spec runs  *)
(* the calls one at a time (a call starts only when no other call is in    *)
(* progress); SpecConc lets calls overlap.                                 *)
(*                                                                         *)
(* Preload times are counted in hundredths of a second (50 is 0.5 s); the  *)
(* values used are multiples of 0.5 s, which Python floats hold exactly.   *)
(* A float quotient is kept as the pair of its numerator and denominator   *)
(* and turned into the two decimals of the report line by Fmt2.            *)
(***************************************************************************)
EXTENDS Integers, FiniteSets, Sequences, TLC

\* ------------------------------------------------------------------ bounds
\* record calls started in one behaviour of Spec
MaxRecords == 3
\* print_hit_rate calls started in one behaviour of Spec
MaxFlushes == 2
\* record calls and print_hit_rate calls started in one behaviour of SpecConc
MaxRecordsConc == 2
MaxFlushesConc == 1
\* threads of the interception layer that call add_count
NumRecorders == 2
\* threads that construct CubeFileOpenInterceptor, and constructions started
\* in one behaviour of SpecNew
NumConstructors == 2
MaxConstructions == 3

Recorders == 1..NumRecorders

Constructors == 1..NumConstructors

\* preload_time arguments, in hundredths of a second: -0.5 s, 0 s, 0.5 s, 1.5 s
PreloadTimes == {-50, 0, 50, 150}

\* preload_time arguments of the overlapping calls of SpecConc
PreloadTimesConc == {50}

\* arguments of set_params
Dirs == {"cache-A", "cache-B"}

\* ----------------------------------------------------------- program state
VARIABLES
    cube_root_dir,              \* class attribute, line 6
    cube_cache_dir,             \* class attribute, line 7
    _last_cycle_hit_count,      \* class attribute, line 8
    _last_cycle_miss_count,     \* class attribute, line 9
    _last_cycle_preload_time,   \* class attribute, line 10
    total_count,                \* class attribute, line 11
    total_hit_count,            \* class attribute, line 12
    total_miss_count,           \* class attribute, line 13
    total_preload_time,         \* class attribute, line 14
    rpc,                        \* position of each thread inside add_count
    rloc,                       \* arguments and operand stack of each add_count frame
    fpc,                        \* position of the timer thread inside print_hit_rate
    floc,                       \* locals and operand stack of the print_hit_rate frame
    stdout,                     \* the line most recently printed (line 72)
    hist,                       \* history: the calls made so far
    pre,                        \* history: the attributes when the latest print_hit_rate started
    _instance,                  \* class attribute, line 5: None or an object
    heap,                       \* the number of CubeFileOpenInterceptor objects created
    cpc,                        \* position of each constructing thread inside __new__
    cloc,                       \* arguments and operand stack of each __new__ frame
    constructed                 \* history: constructions started, objects returned

dirVars   == <<cube_root_dir, cube_cache_dir>>
cycleVars == <<_last_cycle_hit_count, _last_cycle_miss_count, _last_cycle_preload_time>>
totalVars == <<total_count, total_hit_count, total_miss_count, total_preload_time>>
recVars   == <<rpc, rloc>>
flushVars == <<fpc, floc>>
histVars  == <<hist, pre>>
newVars   == <<_instance, heap, cpc, cloc, constructed>>
aggVars   == <<dirVars, cycleVars, totalVars, recVars, flushVars, stdout, histVars>>
vars == <<aggVars, newVars>>

\* ------------------------------------------------------- pure computations
\* round n/d (d > 0) to the nearest integer, ties to even: what "{:.2f}"
\* does to the last kept digit
RoundHalfEven(n, d) ==
    LET q == n \div d
        r == n - q * d
    IN  IF 2 * r < d THEN q
        ELSE IF 2 * r > d THEN q + 1
        ELSE IF q % 2 = 0 THEN q ELSE q + 1

Abs(n) == IF n < 0 THEN -n ELSE n

\* "{:.2f}".format(x) for the float x = q.num / q.den (q.den > 0): the sign
\* printed and the digits as a number of hundredths
Fmt2(q) ==
    [minus |-> q.num < 0, hundredths |-> RoundHalfEven(Abs(q.num) * 100, q.den)]

\* request_count without the substitution of lines 44-45
RequestCountNoSubstitution(hit, miss) ==
    hit + miss

\* request_count that counts the hits only
RequestCountHitsOnly(hit, miss) ==
    IF hit = 0 THEN 1 ELSE hit

\* lines 43-45: request_count, with the substitution of 1 for 0
RequestCount(hit, miss) ==
    IF hit + miss = 0 THEN 1 ELSE hit + miss

\* lines 52, 53, 56, 57: (count / request_count) * 100
Rate(count, request_count) ==
    [num |-> count * 100, den |-> request_count]

\* lines 54, 58: preload_time / request_count, seconds; preload_time is in
\* hundredths of a second
AvgPreload(preload_time, request_count) ==
    [num |-> preload_time, den |-> request_count * 100]

RlocInit == [is_cache |-> FALSE, preload_time |-> 0, t |-> 0]

NoFloat == [num |-> 0, den |-> 1]

FlocInit ==
    [request_count |-> 0, t |-> 0,
     added_hit |-> 0, added_miss |-> 0, added_preload |-> 0,
     last_cycle_hit_rate |-> NoFloat, last_cycle_miss_rate |-> NoFloat,
     last_cycle_avg_preload_time |-> NoFloat,
     total_hit_rate |-> NoFloat, total_miss_rate |-> NoFloat,
     total_avg_preload_time |-> NoFloat,
     arg_cache_dir |-> "", arg_hit |-> 0, arg_miss |-> 0,
     arg_total |-> 0, arg_total_hit |-> 0, arg_total_miss |-> 0]

NoLine == [printed |-> FALSE]

\* a call, as the history records it
Call(op, dir, is_cache, preload_time) ==
    [op |-> op, dir |-> dir, is_cache |-> is_cache, preload_time |-> preload_time]

\* the calls of the scenario set_params("cache-A"); add_count(True, 0.5);
\* add_count(True, 1.5); add_count(False, 0); print_hit_rate()
Scenario ==
    << Call("set_params", "cache-A", FALSE, 0),
       Call("add_count", "", TRUE, 50),
       Call("add_count", "", TRUE, 150),
       Call("add_count", "", FALSE, 0),
       Call("print_hit_rate", "", FALSE, 0) >>

\* how many calls of Scenario the behaviour has made, when the calls made
\* since the start are exactly those; -1 once another call was made
ScenarioAfter(n, call) ==
    IF n >= 0 /\ n < Len(Scenario) /\ Scenario[n + 1] = call THEN n + 1 ELSE -1

\* no add_count call was made in the current cycle
NoRecord ==
    [called |-> FALSE, is_cache |-> FALSE, preload_time |-> 0,
     hit |-> 0, miss |-> 0, preload |-> 0]

HistInit ==
    [hit_calls |-> 0, miss_calls |-> 0, flush_calls |-> 0,
     cycle_hit_calls |-> 0, cycle_miss_calls |-> 0, cycle_preload |-> 0,
     empty_flushes |-> 0, configured |-> "none",
     scenario |-> 0, rec |-> NoRecord]

PreInit ==
    [hit |-> 0, miss |-> 0, preload |-> 0,
     total |-> 0, total_hit |-> 0, total_miss |-> 0, total_preload |-> 0,
     hit_calls |-> 0, miss_calls |-> 0, preload_sum |-> 0,
     flush_no |-> 0, configured |-> "none"]

\* None; the objects are numbered from 1 in the order of their creation
None == 0

ClocInit == [args |-> FALSE, obj |-> None]

ConstructedInit == [calls |-> 0, returned |-> {}]

Init ==
    /\ _instance = None
    /\ heap = 0
    /\ cpc = [c \in Constructors |-> "idle"]
    /\ cloc = [c \in Constructors |-> ClocInit]
    /\ constructed = ConstructedInit
    /\ cube_root_dir = "/tmp"
    /\ cube_cache_dir = "user memory"
    /\ _last_cycle_hit_count = 0
    /\ _last_cycle_miss_count = 0
    /\ _last_cycle_preload_time = 0
    /\ total_count = 0
    /\ total_hit_count = 0
    /\ total_miss_count = 0
    /\ total_preload_time = 0
    /\ rpc = [r \in Recorders |-> "idle"]
    /\ rloc = [r \in Recorders |-> RlocInit]
    /\ fpc = "idle"
    /\ floc = FlocInit
    /\ stdout = NoLine
    /\ hist = HistInit
    /\ pre = PreInit

\* ------------------------------------------------------------- set_params
\* set_params storing into the attribute the report line prints
set_params_cache_dir(dir) ==
    /\ cube_cache_dir' = dir
    /\ hist' = [hist EXCEPT !.configured = dir,
                            !.scenario = ScenarioAfter(@, Call("set_params", dir, FALSE, 0))]
    /\ UNCHANGED <<cube_root_dir, cycleVars, totalVars, recVars, flushVars, stdout, pre>>

\* line 31: one store
set_params(dir) ==
    /\ cube_root_dir' = dir
    /\ hist' = [hist EXCEPT !.configured = dir,
                            !.scenario = ScenarioAfter(@, Call("set_params", dir, FALSE, 0))]
    /\ UNCHANGED <<cube_cache_dir, cycleVars, totalVars, recVars, flushVars, stdout, pre>>

\* --------------------------------------------------------------- add_count
\* a thread's add_count frame moves from one position to the next
RGoto(r, from, to) ==
    /\ rpc[r] = from
    /\ rpc' = [rpc EXCEPT ![r] = to]

\* lines 34-35: the call binds its arguments and takes the branch
add_count_L35(r, is_cache, preload_time) ==
    /\ RGoto(r, "idle", IF is_cache THEN "L36_load" ELSE "L39_load")
    /\ rloc' = [rloc EXCEPT ![r] = [is_cache |-> is_cache, preload_time |-> preload_time, t |-> 0]]
    /\ hist' = [hist EXCEPT
                   !.hit_calls = IF is_cache THEN @ + 1 ELSE @,
                   !.cycle_hit_calls = IF is_cache THEN @ + 1 ELSE @,
                   !.cycle_preload = IF is_cache THEN @ + preload_time ELSE @,
                   !.miss_calls = IF is_cache THEN @ ELSE @ + 1,
                   !.cycle_miss_calls = IF is_cache THEN @ ELSE @ + 1,
                   !.scenario = ScenarioAfter(@, Call("add_count", "", is_cache, preload_time)),
                   !.rec = [called |-> TRUE, is_cache |-> is_cache,
                            preload_time |-> preload_time,
                            hit |-> _last_cycle_hit_count,
                            miss |-> _last_cycle_miss_count,
                            preload |-> _last_cycle_preload_time]]
    /\ UNCHANGED <<dirVars, cycleVars, totalVars, flushVars, stdout, pre>>

\* line 36, _last_cycle_hit_count += 1: the load
add_count_L36_load(r) ==
    /\ RGoto(r, "L36_load", "L36_store")
    /\ rloc' = [rloc EXCEPT ![r].t = _last_cycle_hit_count]
    /\ UNCHANGED <<dirVars, cycleVars, totalVars, flushVars, stdout, histVars>>

\* line 36 counting the hit in the lifetime total at once as well
add_count_L36_store_total(r) ==
    /\ RGoto(r, "L36_store", "L37_load")
    /\ _last_cycle_hit_count' = rloc[r].t + 1
    /\ total_hit_count' = total_hit_count + 1
    /\ UNCHANGED <<dirVars, _last_cycle_miss_count, _last_cycle_preload_time,
                   total_count, total_miss_count, total_preload_time,
                   rloc, flushVars, stdout, histVars>>

\* line 36: the store
add_count_L36_store(r) ==
    /\ RGoto(r, "L36_store", "L37_load")
    /\ _last_cycle_hit_count' = rloc[r].t + 1
    /\ UNCHANGED <<dirVars, _last_cycle_miss_count, _last_cycle_preload_time,
                   totalVars, rloc, flushVars, stdout, histVars>>

\* line 37, _last_cycle_preload_time += preload_time: the load
add_count_L37_load(r) ==
    /\ RGoto(r, "L37_load", "L37_store")
    /\ rloc' = [rloc EXCEPT ![r].t = _last_cycle_preload_time]
    /\ UNCHANGED <<dirVars, cycleVars, totalVars, flushVars, stdout, histVars>>

\* line 37 with = in place of +=
add_count_L37_assign(r) ==
    /\ RGoto(r, "L37_store", "idle")
    /\ _last_cycle_preload_time' = rloc[r].preload_time
    /\ rloc' = [rloc EXCEPT ![r] = RlocInit]
    /\ UNCHANGED <<dirVars, _last_cycle_hit_count, _last_cycle_miss_count,
                   totalVars, flushVars, stdout, histVars>>

\* line 37: the store; the call returns
add_count_L37_store(r) ==
    /\ RGoto(r, "L37_store", "idle")
    /\ _last_cycle_preload_time' = rloc[r].t + rloc[r].preload_time
    /\ rloc' = [rloc EXCEPT ![r] = RlocInit]
    /\ UNCHANGED <<dirVars, _last_cycle_hit_count, _last_cycle_miss_count,
                   totalVars, flushVars, stdout, histVars>>

\* line 39, _last_cycle_miss_count += 1: the load
add_count_L39_load(r) ==
    /\ RGoto(r, "L39_load", "L39_store")
    /\ rloc' = [rloc EXCEPT ![r].t = _last_cycle_miss_count]
    /\ UNCHANGED <<dirVars, cycleVars, totalVars, flushVars, stdout, histVars>>

\* line 39 adding the preload time of the miss as well
add_count_L39_store_preload(r) ==
    /\ RGoto(r, "L39_store", "idle")
    /\ _last_cycle_miss_count' = rloc[r].t + 1
    /\ _last_cycle_preload_time' = _last_cycle_preload_time + rloc[r].preload_time
    /\ rloc' = [rloc EXCEPT ![r] = RlocInit]
    /\ UNCHANGED <<dirVars, _last_cycle_hit_count,
                   totalVars, flushVars, stdout, histVars>>

\* line 39: the store; the call returns
add_count_L39_store(r) ==
    /\ RGoto(r, "L39_store", "idle")
    /\ _last_cycle_miss_count' = rloc[r].t + 1
    /\ rloc' = [rloc EXCEPT ![r] = RlocInit]
    /\ UNCHANGED <<dirVars, _last_cycle_hit_count, _last_cycle_preload_time,
                   totalVars, flushVars, stdout, histVars>>

add_count_step(r) ==
    \/ add_count_L36_load(r)
    \/ add_count_L36_store(r)
    \/ add_count_L37_load(r)
    \/ add_count_L37_store(r)
    \/ add_count_L39_load(r)
    \/ add_count_L39_store(r)

\* ---------------------------------------------------------- print_hit_rate
\* a call of print_hit_rate has ended: initially, after line 76, or by an
\* exception
Returned == fpc \in {"idle", "done", "ZeroDivisionError"}

\* the print_hit_rate frame moves from one position to the next
FGoto(from, to) ==
    /\ fpc = from
    /\ fpc' = to

\* a step of print_hit_rate that only loads an attribute into the frame
FLoad(from, to, newloc) ==
    /\ FGoto(from, to)
    /\ floc' = newloc
    /\ UNCHANGED <<dirVars, cycleVars, totalVars, recVars, stdout, histVars>>

\* a division by the divisor den at position from: ZeroDivisionError ends
\* the call, otherwise the frame becomes newloc
FDivide(from, to, den, newloc) ==
    /\ fpc = from
    /\ fpc' = IF den = 0 THEN "ZeroDivisionError" ELSE to
    /\ floc' = IF den = 0 THEN floc ELSE newloc
    /\ UNCHANGED <<dirVars, cycleVars, totalVars, recVars, stdout, histVars>>

\* line 42: the timer thread enters print_hit_rate
print_hit_rate_call ==
    /\ Returned
    /\ fpc' = "L43_load_hit"
    /\ floc' = FlocInit
    /\ pre' = [hit |-> _last_cycle_hit_count, miss |-> _last_cycle_miss_count,
               preload |-> _last_cycle_preload_time,
               total |-> total_count, total_hit |-> total_hit_count,
               total_miss |-> total_miss_count, total_preload |-> total_preload_time,
               hit_calls |-> hist.cycle_hit_calls, miss_calls |-> hist.cycle_miss_calls,
               preload_sum |-> hist.cycle_preload,
               flush_no |-> hist.flush_calls + 1,
               configured |-> hist.configured]
    /\ hist' = [hist EXCEPT !.flush_calls = @ + 1,
                            !.scenario = ScenarioAfter(@, Call("print_hit_rate", "", FALSE, 0)),
                            !.rec = NoRecord,
                            !.cycle_hit_calls = 0, !.cycle_miss_calls = 0,
                            !.cycle_preload = 0,
                            !.empty_flushes =
                                IF _last_cycle_hit_count + _last_cycle_miss_count = 0
                                THEN @ + 1 ELSE @]
    /\ UNCHANGED <<dirVars, cycleVars, totalVars, recVars, stdout>>

\* line 43: load _last_cycle_hit_count
print_hit_rate_L43_load_hit ==
    FLoad("L43_load_hit", "L43_load_miss", [floc EXCEPT !.t = _last_cycle_hit_count])

\* line 43: load _last_cycle_miss_count, add; lines 44-45
print_hit_rate_L43_load_miss ==
    FLoad("L43_load_miss", "L47_load",
          [floc EXCEPT !.request_count = RequestCount(floc.t, _last_cycle_miss_count)])
\* line 47, total_count += request_count: the load
print_hit_rate_L47_load ==
    FLoad("L47_load", "L47_store", [floc EXCEPT !.t = total_count])

\* line 47 storing total_count back without request_count
print_hit_rate_L47_store_same ==
    /\ FGoto("L47_store", "L48_load")
    /\ total_count' = floc.t
    /\ UNCHANGED <<dirVars, cycleVars, total_hit_count, total_miss_count,
                   total_preload_time, recVars, floc, stdout, histVars>>

\* line 47: the store
print_hit_rate_L47_store ==
    /\ FGoto("L47_store", "L48_load")
    /\ total_count' = floc.t + floc.request_count
    /\ UNCHANGED <<dirVars, cycleVars, total_hit_count, total_miss_count,
                   total_preload_time, recVars, floc, stdout, histVars>>

\* line 48, total_hit_count += _last_cycle_hit_count: load total_hit_count
print_hit_rate_L48_load ==
    FLoad("L48_load", "L48_load_cycle", [floc EXCEPT !.t = total_hit_count])

\* line 48: load _last_cycle_hit_count
print_hit_rate_L48_load_cycle ==
    FLoad("L48_load_cycle", "L48_store", [floc EXCEPT !.added_hit = _last_cycle_hit_count])

\* line 48 with = in place of +=
print_hit_rate_L48_assign ==
    /\ FGoto("L48_store", "L49_load")
    /\ total_hit_count' = floc.added_hit
    /\ UNCHANGED <<dirVars, cycleVars, total_count, total_miss_count,
                   total_preload_time, recVars, floc, stdout, histVars>>

\* line 48: the store
print_hit_rate_L48_store ==
    /\ FGoto("L48_store", "L49_load")
    /\ total_hit_count' = floc.t + floc.added_hit
    /\ UNCHANGED <<dirVars, cycleVars, total_count, total_miss_count,
                   total_preload_time, recVars, floc, stdout, histVars>>

\* line 49, total_miss_count += _last_cycle_miss_count: load total_miss_count
print_hit_rate_L49_load ==
    FLoad("L49_load", "L49_load_cycle", [floc EXCEPT !.t = total_miss_count])

\* line 49: load _last_cycle_miss_count
print_hit_rate_L49_load_cycle ==
    FLoad("L49_load_cycle", "L49_store", [floc EXCEPT !.added_miss = _last_cycle_miss_count])

\* line 49 with = in place of +=
print_hit_rate_L49_assign ==
    /\ FGoto("L49_store", "L50_load")
    /\ total_miss_count' = floc.added_miss
    /\ UNCHANGED <<dirVars, cycleVars, total_count, total_hit_count,
                   total_preload_time, recVars, floc, stdout, histVars>>

\* line 49: the store
print_hit_rate_L49_store ==
    /\ FGoto("L49_store", "L50_load")
    /\ total_miss_count' = floc.t + floc.added_miss
    /\ UNCHANGED <<dirVars, cycleVars, total_count, total_hit_count,
                   total_preload_time, recVars, floc, stdout, histVars>>

\* line 50, total_preload_time += _last_cycle_preload_time: load total_preload_time
print_hit_rate_L50_load ==
    FLoad("L50_load", "L50_load_cycle", [floc EXCEPT !.t = total_preload_time])

\* line 50: load _last_cycle_preload_time
print_hit_rate_L50_load_cycle ==
    FLoad("L50_load_cycle", "L50_store",
          [floc EXCEPT !.added_preload = _last_cycle_preload_time])

\* line 50: the store
print_hit_rate_L50_store ==
    /\ FGoto("L50_store", "L52")
    /\ total_preload_time' = floc.t + floc.added_preload
    /\ UNCHANGED <<dirVars, cycleVars, total_count, total_hit_count,
                   total_miss_count, recVars, floc, stdout, histVars>>
\* line 52: load _last_cycle_hit_count, divide by request_count
print_hit_rate_L52 ==
    FDivide("L52", "L53", floc.request_count,
            [floc EXCEPT !.last_cycle_hit_rate =
                             Rate(_last_cycle_hit_count, floc.request_count)])

\* line 53: load _last_cycle_miss_count, divide by request_count
print_hit_rate_L53 ==
    FDivide("L53", "L54", floc.request_count,
            [floc EXCEPT !.last_cycle_miss_rate =
                             Rate(_last_cycle_miss_count, floc.request_count)])

\* line 54: load _last_cycle_preload_time, divide by request_count
print_hit_rate_L54 ==
    FDivide("L54", "L56_load", floc.request_count,
            [floc EXCEPT !.last_cycle_avg_preload_time =
                             AvgPreload(_last_cycle_preload_time, floc.request_count)])

\* line 56: load total_hit_count
print_hit_rate_L56_load ==
    FLoad("L56_load", "L56_divide", [floc EXCEPT !.t = total_hit_count])

\* line 56: load total_count, divide
print_hit_rate_L56_divide ==
    FDivide("L56_divide", "L57_load", total_count,
            [floc EXCEPT !.total_hit_rate = Rate(floc.t, total_count)])

\* line 57: load total_miss_count
print_hit_rate_L57_load ==
    FLoad("L57_load", "L57_divide", [floc EXCEPT !.t = total_miss_count])

\* line 57: load total_count, divide
print_hit_rate_L57_divide ==
    FDivide("L57_divide", "L58_load", total_count,
            [floc EXCEPT !.total_miss_rate = Rate(floc.t, total_count)])

\* line 58: load total_preload_time
print_hit_rate_L58_load ==
    FLoad("L58_load", "L58_divide", [floc EXCEPT !.t = total_preload_time])

\* line 58: load total_count, divide
print_hit_rate_L58_divide ==
    FDivide("L58_divide", "L63", total_count,
            [floc EXCEPT !.total_avg_preload_time = AvgPreload(floc.t, total_count)])

\* lines 63-70, the arguments of format in order: cube_cache_dir
print_hit_rate_L63 ==
    FLoad("L63", "L64", [floc EXCEPT !.arg_cache_dir = cube_cache_dir])

\* line 64 finding the counter already reset
print_hit_rate_L64_reset ==
    FLoad("L64", "L65", [floc EXCEPT !.arg_hit = 0])

\* line 64: _last_cycle_hit_count
print_hit_rate_L64 ==
    FLoad("L64", "L65", [floc EXCEPT !.arg_hit = _last_cycle_hit_count])

\* line 65: _last_cycle_miss_count
print_hit_rate_L65 ==
    FLoad("L65", "L67", [floc EXCEPT !.arg_miss = _last_cycle_miss_count])

\* line 67: total_count
print_hit_rate_L67 ==
    FLoad("L67", "L68", [floc EXCEPT !.arg_total = total_count])

\* line 68: total_hit_count
print_hit_rate_L68 ==
    FLoad("L68", "L69", [floc EXCEPT !.arg_total_hit = total_hit_count])

\* line 69: total_miss_count
print_hit_rate_L69 ==
    FLoad("L69", "L72", [floc EXCEPT !.arg_total_miss = total_miss_count])

\* lines 60-70: the line format builds from the frame f (time and pid are
\* the environment's and are left out)
FormatLine(f) ==
    [printed |-> TRUE,
     cube_cache_dir |-> f.arg_cache_dir,
     request_count |-> f.request_count,
     hit_count |-> f.arg_hit,
     miss_count |-> f.arg_miss,
     hit_rate |-> Fmt2(f.last_cycle_hit_rate),
     miss_rate |-> Fmt2(f.last_cycle_miss_rate),
     avg_preload_time |-> Fmt2(f.last_cycle_avg_preload_time),
     sum_request_count |-> f.arg_total,
     sum_hit_count |-> f.arg_total_hit,
     sum_miss_count |-> f.arg_total_miss,
     sum_hit_rate |-> Fmt2(f.total_hit_rate),
     sum_miss_rate |-> Fmt2(f.total_miss_rate),
     sum_avg_preload_time |-> Fmt2(f.total_avg_preload_time)]

\* line 72: print
print_hit_rate_L72 ==
    /\ FGoto("L72", "L74")
    /\ stdout' = FormatLine(floc)
    /\ UNCHANGED <<dirVars, cycleVars, totalVars, recVars, floc, histVars>>

\* line 74: _last_cycle_hit_count = 0
print_hit_rate_L74 ==
    /\ FGoto("L74", "L75")
    /\ _last_cycle_hit_count' = 0
    /\ UNCHANGED <<dirVars, _last_cycle_miss_count, _last_cycle_preload_time,
                   totalVars, recVars, floc, stdout, histVars>>

\* line 75: _last_cycle_miss_count = 0
print_hit_rate_L75 ==
    /\ FGoto("L75", "L76")
    /\ _last_cycle_miss_count' = 0
    /\ UNCHANGED <<dirVars, _last_cycle_hit_count, _last_cycle_preload_time,
                   totalVars, recVars, floc, stdout, histVars>>

\* line 76: _last_cycle_preload_time = 0; the call returns
print_hit_rate_L76 ==
    /\ FGoto("L76", "done")
    /\ _last_cycle_preload_time' = 0
    /\ UNCHANGED <<dirVars, _last_cycle_hit_count, _last_cycle_miss_count,
                   totalVars, recVars, floc, stdout, histVars>>

print_hit_rate_step ==
    \/ print_hit_rate_L43_load_hit
    \/ print_hit_rate_L43_load_miss
    \/ print_hit_rate_L47_load
    \/ print_hit_rate_L47_store
    \/ print_hit_rate_L48_load
    \/ print_hit_rate_L48_load_cycle
    \/ print_hit_rate_L48_store
    \/ print_hit_rate_L49_load
    \/ print_hit_rate_L49_load_cycle
    \/ print_hit_rate_L49_store
    \/ print_hit_rate_L50_load
    \/ print_hit_rate_L50_load_cycle
    \/ print_hit_rate_L50_store
    \/ print_hit_rate_L52
    \/ print_hit_rate_L53
    \/ print_hit_rate_L54
    \/ print_hit_rate_L56_load
    \/ print_hit_rate_L56_divide
    \/ print_hit_rate_L57_load
    \/ print_hit_rate_L57_divide
    \/ print_hit_rate_L58_load
    \/ print_hit_rate_L58_divide
    \/ print_hit_rate_L63
    \/ print_hit_rate_L64
    \/ print_hit_rate_L65
    \/ print_hit_rate_L67
    \/ print_hit_rate_L68
    \/ print_hit_rate_L69
    \/ print_hit_rate_L72
    \/ print_hit_rate_L74
    \/ print_hit_rate_L75
    \/ print_hit_rate_L76

\* no call is in progress
Quiescent ==
    /\ Returned
    /\ \A r \in Recorders : rpc[r] = "idle"

\* ----------------------------------------------------------------- __new__
\* a thread's __new__ frame moves from one position to the next
CGoto(c, from, to) ==
    /\ cpc[c] = from
    /\ cpc' = [cpc EXCEPT ![c] = to]

\* line 18: CubeFileOpenInterceptor(...) enters __new__; args tells whether
\* the construction passes any argument
new_call(c, args) ==
    /\ cpc[c] \in {"idle", "returned", "TypeError"}
    /\ cpc' = [cpc EXCEPT ![c] = "L19"]
    /\ cloc' = [cloc EXCEPT ![c] = [args |-> args, obj |-> None]]
    /\ constructed' = [constructed EXCEPT !.calls = @ + 1]
    /\ UNCHANGED <<_instance, heap>>

\* line 19: load cls._instance and test it; an object is true, None is not
new_L19(c) ==
    /\ CGoto(c, "L19", IF _instance = None THEN "L20_new" ELSE "L21")
    /\ UNCHANGED <<_instance, heap, cloc, constructed>>

\* line 20: super().__new__(cls, *args, **kwargs) is object.__new__, which
\* raises TypeError when given arguments and creates an object otherwise
new_L20_new(c) ==
    /\ cpc[c] = "L20_new"
    /\ cpc' = [cpc EXCEPT ![c] = IF cloc[c].args THEN "TypeError" ELSE "L20_store"]
    /\ heap' = IF cloc[c].args THEN heap ELSE heap + 1
    /\ cloc' = IF cloc[c].args THEN cloc ELSE [cloc EXCEPT ![c].obj = heap + 1]
    /\ UNCHANGED <<_instance, constructed>>

\* line 20: the store into cls._instance
new_L20_store(c) ==
    /\ CGoto(c, "L20_store", "L21")
    /\ _instance' = cloc[c].obj
    /\ UNCHANGED <<heap, cloc, constructed>>

\* line 21: load cls._instance and return it
new_L21(c) ==
    /\ CGoto(c, "L21", "returned")
    /\ cloc' = [cloc EXCEPT ![c] = ClocInit]
    /\ constructed' = [constructed EXCEPT !.returned = @ \cup {_instance}]
    /\ UNCHANGED <<_instance, heap>>

new_step(c) ==
    \/ new_L19(c)
    \/ new_L20_new(c)
    \/ new_L20_store(c)
    \/ new_L21(c)

\* --------------------------------------------------------- specifications
\* calls executed one at a time: a call starts only when none is in progress
Configure ==
    \E dir \in Dirs : Quiescent /\ set_params(dir) /\ UNCHANGED newVars

Record ==
    \E r \in Recorders, is_cache \in BOOLEAN, preload_time \in PreloadTimes :
        /\ Quiescent
        /\ hist.hit_calls + hist.miss_calls < MaxRecords
        /\ add_count_L35(r, is_cache, preload_time)
        /\ UNCHANGED newVars

RecordStep ==
    \E r \in Recorders : add_count_step(r) /\ UNCHANGED newVars

Flush ==
    /\ Quiescent
    /\ hist.flush_calls < MaxFlushes
    /\ print_hit_rate_call
    /\ UNCHANGED newVars

FlushStep == print_hit_rate_step /\ UNCHANGED newVars

Next ==
    \/ Configure
    \/ Record
    \/ RecordStep
    \/ Flush
    \/ FlushStep

Spec == Init /\ [][Next]_vars

\* calls overlap: a thread starts a call whenever it is not inside one.
\* set_params is left out: it is a single store to cube_root_dir, which no
\* other call loads.
RecordConc ==
    \E r \in Recorders, is_cache \in BOOLEAN, preload_time \in PreloadTimesConc :
        /\ hist.hit_calls + hist.miss_calls < MaxRecordsConc
        /\ add_count_L35(r, is_cache, preload_time)
        /\ UNCHANGED newVars

FlushConc ==
    /\ hist.flush_calls < MaxFlushesConc
    /\ print_hit_rate_call
    /\ UNCHANGED newVars

NextConc ==
    \/ RecordConc
    \/ RecordStep
    \/ FlushConc
    \/ FlushStep

SpecConc == Init /\ [][NextConc]_vars

\* constructions of CubeFileOpenInterceptor started from several threads; the
\* objects hold no state of their own, the counters are class attributes
Construct ==
    \E c \in Constructors, args \in BOOLEAN :
        /\ constructed.calls < MaxConstructions
        /\ new_call(c, args)
        /\ UNCHANGED aggVars

ConstructStep ==
    \E c \in Constructors : new_step(c) /\ UNCHANGED aggVars

NextNew ==
    \/ Construct
    \/ ConstructStep

SpecNew == Init /\ [][NextNew]_vars

\* ================================================================== claims
\* the latest print_hit_rate has returned and no add_count was called since
JustFlushed ==
    /\ fpc = "done"
    /\ hist.cycle_hit_calls + hist.cycle_miss_calls = 0

\* the printed number h of hundredths is the quotient n/d (n >= 0, d > 0)
\* rounded to two decimals: it is within half a hundredth of it
IsRounded(h, n, d) ==
    /\ 2 * (h * d - 100 * n) <= d
    /\ 2 * (100 * n - h * d) <= d

Max(a, b) == IF a > b THEN a ELSE b

\* C1 (Spec): after every completed print_hit_rate, with the calls executed
\* one at a time, total_count = total_hit_count + total_miss_count.
C1_TotalIsHitsPlusMisses ==
    fpc = "done" => total_count = total_hit_count + total_miss_count

\* C2 (Spec): after every completed print_hit_rate, total_hit_count is the
\* number of add_count(True, _) calls made before that call and
\* total_miss_count the number of add_count(False, _) calls made before it.
C2_LifetimeTotalsAreSums ==
    fpc = "done" =>
        /\ total_hit_count = hist.hit_calls - hist.cycle_hit_calls
        /\ total_miss_count = hist.miss_calls - hist.cycle_miss_calls

\* a second or later flush has returned; hits were flushed by it and by an
\* earlier one, and a miss was flushed too
C2_Witness ==
    /\ fpc = "done"
    /\ pre.flush_no >= 2
    /\ pre.hit_calls >= 1
    /\ pre.total_hit >= 1
    /\ total_miss_count >= 1

\* C3 (Spec): a print_hit_rate that follows another one with no add_count
\* in between leaves the four lifetime accumulators as the first left them.
C3_SecondFlushChangesNothing ==
    (fpc = "done" /\ pre.flush_no >= 2 /\ pre.hit_calls + pre.miss_calls = 0) =>
        /\ total_count = pre.total
        /\ total_hit_count = pre.total_hit
        /\ total_miss_count = pre.total_miss
        /\ total_preload_time = pre.total_preload

\* C4 (SpecConc): once all overlapping calls have returned, no update is
\* lost: total_hit_count + _last_cycle_hit_count is the number of
\* add_count(True, _) calls and total_miss_count + _last_cycle_miss_count the
\* number of add_count(False, _) calls.
C4_NoLostUpdate ==
    Quiescent =>
        /\ total_hit_count + _last_cycle_hit_count = hist.hit_calls
        /\ total_miss_count + _last_cycle_miss_count = hist.miss_calls

\* C5 (SpecConc): a print_hit_rate that started with a request in the cycle
\* has added to total_count what it added to total_hit_count plus what it
\* added to total_miss_count, and the request_count it printed is the
\* hit_count plus the miss_count it printed.
C5_ConsistentSnapshot ==
    (fpc = "done" /\ pre.hit + pre.miss > 0) =>
        /\ total_count - pre.total =
               (total_hit_count - pre.total_hit) + (total_miss_count - pre.total_miss)
        /\ stdout.request_count = stdout.hit_count + stdout.miss_count

\* C6 (SpecConc): the step in which print_hit_rate returns leaves the three
\* cycle counters zero, and between the store of line 74 and the store of
\* line 76 no add_count step runs.
C6_ResetTogether ==
    [][/\ (fpc = "L76" /\ fpc' = "done") =>
              /\ _last_cycle_hit_count' = 0
              /\ _last_cycle_miss_count' = 0
              /\ _last_cycle_preload_time' = 0
       /\ fpc \in {"L75", "L76"} => UNCHANGED recVars]_vars

\* C7 (Spec): for a cycle of N add_count(True, p_i) calls and M
\* add_count(False, _) calls followed by print_hit_rate, the line printed has
\* hit_count N, miss_count M and, as avg_preload_time, the two decimals of
\* (p_1 + ... + p_N) / max(N + M, 1); the float formatted is exactly that
\* quotient.
C7_CycleReport ==
    fpc = "done" =>
        LET n == pre.hit_calls
            m == pre.miss_calls
            d == Max(n + m, 1)
            avg == floc.last_cycle_avg_preload_time
        IN  /\ stdout.hit_count = n
            /\ stdout.miss_count = m
            /\ avg.den > 0
            /\ avg.num * (100 * d) = pre.preload_sum * avg.den
            /\ stdout.avg_preload_time.minus = (pre.preload_sum < 0)
            /\ IsRounded(stdout.avg_preload_time.hundredths, Abs(pre.preload_sum), 100 * d)

\* a flushed cycle with two hits, a miss and a preload sum that is not zero
C7_Witness ==
    /\ fpc = "done"
    /\ pre.hit_calls >= 2
    /\ pre.miss_calls >= 1
    /\ pre.preload_sum # 0

\* C8 (Spec): a print_hit_rate called when the cycle has no request never
\* ends in ZeroDivisionError; the line it prints has request_count 1,
\* hit_count 0, miss_count 0, hit_rate 0.00 and miss_rate 0.00, and when it
\* returns the cycle counters are zero.
C8_EmptyFlush ==
    (pre.flush_no >= 1 /\ pre.hit + pre.miss = 0) =>
        /\ fpc # "ZeroDivisionError"
        /\ fpc = "done" =>
               /\ stdout.request_count = 1
               /\ stdout.hit_count = 0
               /\ stdout.miss_count = 0
               /\ stdout.hit_rate = [minus |-> FALSE, hundredths |-> 0]
               /\ stdout.miss_rate = [minus |-> FALSE, hundredths |-> 0]
        /\ JustFlushed =>
               /\ _last_cycle_hit_count = 0
               /\ _last_cycle_miss_count = 0
               /\ _last_cycle_preload_time = 0

\* a print_hit_rate that started on an empty cycle has returned
C8_Witness ==
    /\ JustFlushed
    /\ pre.flush_no >= 1
    /\ pre.hit + pre.miss = 0
    /\ stdout.printed

\* C9 (Spec): no step decreases total_count, total_hit_count,
\* total_miss_count or total_preload_time.
C9_NeverDecrease ==
    [][/\ total_count' >= total_count
       /\ total_hit_count' >= total_hit_count
       /\ total_miss_count' >= total_miss_count
       /\ total_preload_time' >= total_preload_time]_vars

\* C10 as claimed (Spec): the cube_cache_dir of a line printed after a
\* set_params call is the argument of the most recent set_params call.
C10_ReportCarriesConfigured ==
    (fpc = "done" /\ pre.configured # "none") =>
        stdout.cube_cache_dir = pre.configured

\* C10 as amended (Spec): every line printed carries the initial
\* cube_cache_dir, "user memory", whatever set_params calls were made;
\* set_params stores its argument in cube_root_dir (last write wins), which
\* the line does not contain.
C10_ReportCarriesCacheDir ==
    /\ stdout.printed => stdout.cube_cache_dir = "user memory"
    /\ cube_root_dir = IF hist.configured = "none" THEN "/tmp" ELSE hist.configured

\* a line printed by a print_hit_rate that was called after set_params
C10_Witness ==
    /\ fpc = "done"
    /\ stdout.printed
    /\ pre.configured \in Dirs
    /\ cube_root_dir = pre.configured

\* the calls made since the start are exactly those of Scenario, and its
\* print_hit_rate has returned
ScenarioDone ==
    /\ hist.scenario = Len(Scenario)
    /\ fpc = "done"

\* the line printed shows the same lifetime counts as cycle counts
LifetimeEqualsCycle ==
    /\ stdout.sum_request_count = stdout.request_count
    /\ stdout.sum_hit_count = stdout.hit_count
    /\ stdout.sum_miss_count = stdout.miss_count
    /\ stdout.sum_hit_rate = stdout.hit_rate
    /\ stdout.sum_miss_rate = stdout.miss_rate
    /\ stdout.sum_avg_preload_time = stdout.avg_preload_time

\* C11 as claimed (Spec): after set_params("cache-A"); add_count(True, 0.5);
\* add_count(True, 1.5); add_count(False, 0); print_hit_rate() the line shows
\* request_count 3, hit_count 2, miss_count 1 and avg_preload_time 1.00, and
\* its lifetime values equal its cycle values.
C11_ScenarioAverageOverHits ==
    ScenarioDone =>
        /\ stdout.request_count = 3
        /\ stdout.hit_count = 2
        /\ stdout.miss_count = 1
        /\ stdout.avg_preload_time = [minus |-> FALSE, hundredths |-> 100]
        /\ LifetimeEqualsCycle

\* C11 as amended (Spec): after the same calls the line shows request_count
\* 3, hit_count 2, miss_count 1 and avg_preload_time 0.67, the accumulated
\* preload 2.0 divided by the 3 requests, and its lifetime values equal its
\* cycle values.
C11_ScenarioAverageOverRequests ==
    ScenarioDone =>
        /\ stdout.request_count = 3
        /\ stdout.hit_count = 2
        /\ stdout.miss_count = 1
        /\ stdout.avg_preload_time = [minus |-> FALSE, hundredths |-> 67]
        /\ LifetimeEqualsCycle

\* the scenario has run to its end, with 2.0 s of preload flushed
C11_Witness ==
    /\ ScenarioDone
    /\ stdout.printed
    /\ pre.configured = "cache-A"
    /\ pre.preload = 200
    /\ total_preload_time = 200

\* C12 (Spec): add_count(True, p) increases _last_cycle_hit_count by 1 and
\* _last_cycle_preload_time by p and leaves _last_cycle_miss_count as it was;
\* add_count(False, p) increases _last_cycle_miss_count by 1 and leaves
\* _last_cycle_hit_count and _last_cycle_preload_time as they were.
C12_RecordEffect ==
    (Quiescent /\ hist.rec.called) =>
        IF hist.rec.is_cache
        THEN /\ _last_cycle_hit_count = hist.rec.hit + 1
             /\ _last_cycle_preload_time = hist.rec.preload + hist.rec.preload_time
             /\ _last_cycle_miss_count = hist.rec.miss
        ELSE /\ _last_cycle_miss_count = hist.rec.miss + 1
             /\ _last_cycle_hit_count = hist.rec.hit
             /\ _last_cycle_preload_time = hist.rec.preload

\* add_count(False, 1.5) has returned in a cycle that already had a hit with
\* a preload time
C12_Witness ==
    /\ Quiescent
    /\ hist.rec.called
    /\ ~hist.rec.is_cache
    /\ hist.rec.preload_time = 150
    /\ hist.rec.hit >= 1
    /\ hist.rec.preload # 0

\* C13 (SpecNew): at most one CubeFileOpenInterceptor object is ever created
\* and every construction that returns, returns the same object, also when
\* constructions are started from several threads.
C13_Singleton ==
    /\ heap <= 1
    /\ Cardinality(constructed.returned) <= 1

\* C14 (Spec): a step of add_count leaves total_count, total_hit_count,
\* total_miss_count and total_preload_time as they were, and a set_params
\* call leaves every cycle counter and every lifetime accumulator as it was.
C14_OnlyFlushAccumulates ==
    [][/\ rpc' # rpc => UNCHANGED totalVars
       /\ (rpc' = rpc /\ fpc' = fpc) => UNCHANGED <<cycleVars, totalVars>>]_vars

\* add_count and set_params have run after a flush that left lifetime
\* totals, in a cycle that has requests
C14_Witness ==
    /\ Quiescent
    /\ hist.rec.called
    /\ hist.rec.is_cache
    /\ hist.configured \in Dirs
    /\ cube_root_dir # "/tmp"
    /\ total_hit_count >= 1
    /\ _last_cycle_hit_count >= 1

\* print_hit_rate is at a division by total_count
AtLifetimeDivision == fpc \in {"L56_divide", "L57_divide", "L58_divide"}

\* C15 (SpecConc): whenever print_hit_rate divides by total_count,
\* total_count >= 1 and the call has added at least 1 to it; no
\* print_hit_rate ends in ZeroDivisionError, whatever add_count calls overlap.
C15_LifetimeDivisor ==
    /\ fpc # "ZeroDivisionError"
    /\ AtLifetimeDivision =>
           /\ total_count >= 1
           /\ total_count >= pre.total + 1

\* the very first print_hit_rate, started with no traffic, is at the division
\* of line 56 while an add_count call is in progress
C15_Witness ==
    /\ fpc = "L56_divide"
    /\ pre.flush_no = 1
    /\ pre.total = 0
    /\ pre.hit + pre.miss = 0
    /\ \E r \in Recorders : rpc[r] # "idle"

\* C16 (Spec): between calls, total_count = total_hit_count +
\* total_miss_count + E, E being the number of print_hit_rate calls that
\* started with no request in the cycle.
C16_TotalCountsEmptyFlushes ==
    Quiescent =>
        total_count = total_hit_count + total_miss_count + hist.empty_flushes

\* an empty flush and a flush of hits and misses have both returned
C16_Witness ==
    /\ fpc = "done"
    /\ hist.empty_flushes >= 1
    /\ total_hit_count >= 1
    /\ total_miss_count >= 1

\* C17 (Spec): the line printed by a print_hit_rate run without interleaving
\* shows the lifetime counts as they are after the call, the current cycle
\* included, and the cycle hit and miss counts as they were just before the
\* call, not the zeros of the reset.
C17_AccumulateReportReset ==
    fpc = "done" =>
        /\ stdout.sum_request_count = total_count
        /\ stdout.sum_hit_count = total_hit_count
        /\ stdout.sum_miss_count = total_miss_count
        /\ total_hit_count = pre.total_hit + pre.hit
        /\ total_miss_count = pre.total_miss + pre.miss
        /\ stdout.hit_count = pre.hit
        /\ stdout.miss_count = pre.miss

\* a second flush, of a cycle with a hit and a miss, has returned and the
\* cycle counters are reset
C17_Witness ==
    /\ JustFlushed
    /\ pre.flush_no >= 2
    /\ pre.total >= 1
    /\ pre.hit >= 1
    /\ pre.miss >= 1
    /\ _last_cycle_hit_count = 0
    /\ _last_cycle_miss_count = 0

====
